---- MODULE Spec2Model ----
(***************************************************************************)
(* A model of object_detection.py: the threshold store and its two         *)
(* setters, the match filter corner_match, the cluster engine              *)
(* find_four_clusters and the per-frame loop of __main__.                  *)
(*                                                                         *)
(* Numbers.  Thresholds and keypoint responses are fixed-point numbers in  *)
(* units of 1/Scale, so 0.05 is 50 and 1.0 is 1000.  A descriptor is a     *)
(* one-dimensional vector, its L2 distance to another is the absolute      *)
(* difference.  Sequences are 1-based here and 0-based in the source.      *)
(***************************************************************************)
EXTENDS Integers, Sequences, FiniteSets

VARIABLES
    corner_threshold,       \* self.corner_threshold, in 1/Scale
    close_match_threshold,  \* self.close_match_threshold, in 1/Scale
    corner_raw,             \* position of the 'Corner Threshold' trackbar
    match_raw,              \* position of the 'Ratio Threshold' trackbar
    train_descriptors,      \* __main__: descriptors of the training image
    pc,                     \* where the running code stands
    frame,                  \* __main__: the frame being processed
    new_corners,            \* __main__: find_corners(frame)
    desc_corners,           \* find_descriptors: its local `corners`
    new_descriptors,        \* __main__: find_descriptors(frame)
    good_corners,           \* __main__: result of corner_match
    cluster_coords,         \* __main__: result of find_four_clusters
    stages,                 \* what has been done to the current frame
    fault                   \* the exception that ended the run, or "none"

vars == <<corner_threshold, close_match_threshold, corner_raw, match_raw,
          train_descriptors, pc, frame, new_corners, desc_corners,
          new_descriptors, good_corners, cluster_coords, stages, fault>>

thresholds == <<corner_threshold, close_match_threshold, corner_raw, match_raw>>

loopvars == <<train_descriptors, pc, frame, new_corners, desc_corners,
              new_descriptors, good_corners, cluster_coords, stages, fault>>

----------------------------------------------------------------------------
(* Bounds of the model *)

MaxKp == 3      \* keypoints SIFT finds in one frame, at most
MaxRaw == 1     \* the loop's trackbars stop at 0..MaxRaw and at TrackbarMax
MaxRef == 3     \* reference descriptors given to corner_match alone
MaxPts == 5     \* corners given to find_four_clusters alone
MaxCoord == 1   \* pixel coordinates are 0..MaxCoord
RefLen == 6     \* keypoints of the training image

(* Constants of the program *)

TrackbarMax == 100
CornerDivisor == 1000
MatchDivisor == 100
n_clusters == 4
MinCorners == 1
MinGood == 5
knn == 2

Scale == CornerDivisor

----------------------------------------------------------------------------
(* Images, keypoints and descriptors *)

(* What SIFT sees in an image: a sequence of features, each a keypoint     *)
(* position, its response and the descriptor of its neighbourhood.         *)
Responses == {1, 2}
DescValues == {0, 1}

Image(s) ==
    [i \in 1..Len(s) |->
        [pt |-> <<i, i>>, response |-> s[i].response, desc |-> s[i].desc]]

Frames ==
    UNION {{Image(s) : s \in [1..n -> [response : Responses, desc : DescValues]]}
               : n \in 0..MaxKp}

(* The training image: RefLen features, every response above the initial   *)
(* threshold, descriptors alternating between the two descriptor values.   *)
TrainImage ==
    [i \in 1..RefLen |->
        [pt |-> <<i, i>>, response |-> 1, desc |-> i % 2]]

(* cv2.SIFT_create().detect: the keypoints of the image, in its order *)
Detect(image) ==
    [i \in 1..Len(image) |->
        [pt |-> image[i].pt, response |-> image[i].response]]

(* cv2.SIFT_create().compute: one descriptor per keypoint given, in order *)
Compute(image, corners) ==
    [i \in 1..Len(corners) |->
        image[CHOOSE k \in 1..Len(image) : image[k].pt = corners[i].pt].desc]

find_corners(image, ct) ==
    SelectSeq(Detect(image), LAMBDA corner : corner.response > ct)

find_descriptors(image, ct) ==
    Compute(image, find_corners(image, ct))

----------------------------------------------------------------------------
(* corner_match *)

Dist(a, b) == IF a >= b THEN a - b ELSE b - a

(* The train descriptor nearest to q outside excl; of two at the same      *)
(* distance the one with the lower index.                                  *)
Nearest(q, train, excl) ==
    CHOOSE j \in (1..Len(train)) \ excl :
        \A k \in (1..Len(train)) \ excl :
            \/ Dist(q, train[j]) < Dist(q, train[k])
            \/ Dist(q, train[j]) = Dist(q, train[k]) /\ j <= k

DMatch(i, j, query, train) ==
    [queryIdx |-> i, trainIdx |-> j, distance |-> Dist(query[i], train[j])]

Returned(v) == [raised |-> "none", value |-> v]
Raised(e) == [raised |-> e, value |-> <<>>]

(* cv2.BFMatcher().knnMatch(query, train, k=2): for every QUERY descriptor *)
(* its knn nearest TRAIN descriptors, nearest first, and fewer than knn    *)
(* when train is shorter.  An empty descriptor list is the None that       *)
(* compute gives for no keypoints: with query None there are no matches;   *)
(* with train None and query not, the matcher's assertion that both have   *)
(* the same element type fails and cv2.error is raised.                    *)
knnMatch(query, train) ==
    IF Len(query) = 0 THEN Returned(<<>>)
    ELSE IF Len(train) = 0 THEN Raised("cv2.error")
    ELSE Returned(
        [i \in 1..Len(query) |->
            LET m == Nearest(query[i], train, {})
            IN  IF Len(train) < knn
                THEN <<DMatch(i, m, query, train)>>
                ELSE <<DMatch(i, m, query, train),
                       DMatch(i, Nearest(query[i], train, {m}), query, train)>>])

(* The loop `for m, n in matches` of corner_match from its i-th turn on.   *)
(* Unpacking a match list that has not two elements raises ValueError; an  *)
(* index beyond new_corners raises IndexError, and only when the ratio     *)
(* test before the `and` passed.                                           *)
RECURSIVE GoodMatches(_, _, _, _, _, _)
GoodMatches(matches, i, corners, ct, cmt, good) ==
    IF i > Len(matches) THEN Returned(good)
    ELSE IF Len(matches[i]) # 2 THEN Raised("ValueError")
    ELSE LET m == matches[i][1]
             n == matches[i][2]
         IN  IF m.distance * Scale < cmt * n.distance
             THEN IF m.trainIdx > Len(corners) THEN Raised("IndexError")
                  ELSE IF corners[m.trainIdx].response > ct
                       THEN GoodMatches(matches, i + 1, corners, ct, cmt,
                                Append(good, <<m.queryIdx, m.trainIdx>>))
                       ELSE GoodMatches(matches, i + 1, corners, ct, cmt, good)
             ELSE GoodMatches(matches, i + 1, corners, ct, cmt, good)

(* the two descriptor lists handed to knnMatch the other way round *)
MatchesSwapped(original, new) == knnMatch(new, original)

(* original is the QUERY side of knnMatch and new its TRAIN side *)
Matches(original, new) == knnMatch(original, new)

corner_match(original, new, corners, ct, cmt) ==
    LET matches == Matches(original, new)
        r == GoodMatches(matches.value, 1, corners, ct, cmt, <<>>)
    IN  IF matches.raised # "none" THEN matches
        ELSE IF r.raised # "none" THEN r
        ELSE Returned([k \in 1..Len(r.value) |-> corners[r.value[k][2]]])

----------------------------------------------------------------------------
(* find_four_clusters *)

find_x(corners) == [i \in 1..Len(corners) |-> corners[i].pt[1]]
find_y(corners) == [i \in 1..Len(corners) |-> corners[i].pt[2]]

Points(corners) ==
    [i \in 1..Len(corners) |-> <<find_x(corners)[i], find_y(corners)[i]>>]

Unbound == [kind |-> "unbound", fitted |-> <<>>]
None == [kind |-> "None", fitted |-> <<>>]

(* KMeans(init='random', n_clusters=4).fit(points): raises ValueError when *)
(* there are fewer samples than clusters and otherwise returns the fitted  *)
(* estimator, whatever the samples are (duplicate points only make it      *)
(* warn).  The n_clusters centres are kept as the points they were fitted  *)
(* to: their coordinates depend on the random initialisation.              *)
KMeansFit(points) ==
    IF Len(points) < n_clusters THEN Raised("ValueError")
    ELSE Returned([kind |-> "centers", fitted |-> points])

find_four_clusters(corners) ==
    LET clusters == KMeansFit(Points(corners))
    IN  IF clusters.raised # "none" THEN None ELSE clusters.value

----------------------------------------------------------------------------
(* The threshold store *)

TrackbarStops == (0..MaxRaw) \cup {TrackbarMax}

(* value/1000 and value/100 as integer divisions *)
CornerOfFloored(value) == (value \div CornerDivisor) * Scale
MatchOfFloored(value) == (value \div MatchDivisor) * Scale

(* value/1000.0 and value/100.0, in 1/Scale *)
CornerOf(value) == (value * Scale) \div CornerDivisor
MatchOf(value) == (value * Scale) \div MatchDivisor

(* 'Corner Threshold' trackbar moved to value: change_corner_threshold *)
change_corner_threshold(value) ==
    /\ pc # "fault"
    /\ corner_raw' = value
    /\ corner_threshold' = CornerOf(value)
    /\ UNCHANGED <<close_match_threshold, match_raw>>
    /\ UNCHANGED loopvars

(* 'Ratio Threshold' trackbar moved to value: change_match_threshold *)
change_match_threshold(value) ==
    /\ pc # "fault"
    /\ match_raw' = value
    /\ close_match_threshold' = MatchOf(value)
    /\ UNCHANGED <<corner_threshold, corner_raw>>
    /\ UNCHANGED loopvars

(* object_detection() and the two createTrackbar calls *)
InitThresholds ==
    /\ corner_threshold = 0
    /\ close_match_threshold = Scale
    /\ corner_raw = 0
    /\ match_raw = TrackbarMax

----------------------------------------------------------------------------
(* The loop of __main__ *)

(* After a frame is shown the names the loop binds anew before it reads    *)
(* them are cleared: every statement that reads frame, new_corners,        *)
(* new_descriptors or good_corners (lines 290-314) comes after their       *)
(* assignment in the same turn.  cluster_coords is not among them: line    *)
(* 303 reads it on a turn that may not have assigned it.                   *)
LoopHead ==
    /\ frame' = <<>>
    /\ new_corners' = <<>>
    /\ desc_corners' = <<>>
    /\ new_descriptors' = <<>>
    /\ good_corners' = <<>>

Init ==
    /\ InitThresholds
    /\ train_descriptors = find_descriptors(TrainImage, 0)
    /\ pc = "detect"
    /\ frame = <<>>
    /\ new_corners = <<>>
    /\ desc_corners = <<>>
    /\ new_descriptors = <<>>
    /\ good_corners = <<>>
    /\ cluster_coords = Unbound
    /\ stages = <<>>
    /\ fault = "none"

(* line 293 *)
EnoughCornersOffByOne(corners) == Len(corners) >= MinCorners

EnoughCorners(corners) == Len(corners) > MinCorners

(* line 297 *)
EnoughGoodCorners(corners) == Len(corners) > MinGood

(* lines 284-286: cap.read() gave no frame *)
NoFrame ==
    /\ pc = "detect"
    /\ stages' = <<>>
    /\ LoopHead
    /\ UNCHANGED <<thresholds, train_descriptors, pc, cluster_coords, fault>>

(* lines 284-293, 299-301: read a frame, find its corners, test their count *)
DetectFrame ==
    /\ pc = "detect"
    /\ \E f \in Frames :
        LET corners == find_corners(f, corner_threshold)
        IN  IF EnoughCorners(corners)
            THEN /\ frame' = f
                 /\ new_corners' = corners
                 /\ pc' = "describe"
                 /\ UNCHANGED <<desc_corners, new_descriptors, good_corners>>
            ELSE /\ frame' = <<>>
                 /\ new_corners' = corners
                 /\ pc' = "detect"
                 /\ UNCHANGED <<desc_corners, new_descriptors, good_corners>>
    /\ stages' = <<"detect">>
    /\ UNCHANGED <<thresholds, train_descriptors, cluster_coords, fault>>

(* line 294: find_descriptors(frame), which finds the corners once more *)
Describe ==
    /\ pc = "describe"
    /\ desc_corners' = find_corners(frame, corner_threshold)
    /\ new_descriptors' = Compute(frame, desc_corners')
    /\ stages' = Append(stages, "describe")
    /\ pc' = "match"
    /\ UNCHANGED <<thresholds, train_descriptors, frame, new_corners,
                   good_corners, cluster_coords, fault>>

(* lines 295-297: corner_match and the test of how many corners it kept *)
Match ==
    /\ pc = "match"
    /\ LET r == corner_match(train_descriptors, new_descriptors, new_corners,
                             corner_threshold, close_match_threshold)
       IN  IF r.raised # "none"
           THEN /\ pc' = "fault"
                /\ fault' = r.raised
                /\ UNCHANGED <<good_corners, stages>>
           ELSE /\ good_corners' = r.value
                /\ stages' = Append(stages, "filter")
                /\ pc' = IF EnoughGoodCorners(r.value) THEN "cluster" ELSE "overlay"
                /\ fault' = fault
    /\ UNCHANGED <<thresholds, train_descriptors, frame, new_corners,
                   desc_corners, new_descriptors, cluster_coords>>

(* line 298 *)
Cluster ==
    /\ pc = "cluster"
    /\ cluster_coords' = find_four_clusters(good_corners)
    /\ stages' = Append(stages, "cluster")
    /\ pc' = "overlay"
    /\ UNCHANGED <<thresholds, train_descriptors, frame, new_corners,
                   desc_corners, new_descriptors, good_corners, fault>>

(* lines 303-317: draw the cluster centres if cluster_coords holds any,    *)
(* draw the good corners, show the frame; then the next turn of the loop.  *)
(* Reading a name never assigned raises NameError.                         *)
Overlay ==
    /\ pc = "overlay"
    /\ IF cluster_coords = Unbound
       THEN /\ pc' = "fault"
            /\ fault' = "NameError"
            /\ UNCHANGED <<frame, new_corners, desc_corners, new_descriptors,
                           good_corners, stages>>
       ELSE /\ stages' = IF cluster_coords # None
                         THEN stages \o <<"draw_clusters", "draw_corners">>
                         ELSE Append(stages, "draw_corners")
            /\ pc' = "detect"
            /\ LoopHead
            /\ fault' = fault
    /\ UNCHANGED <<thresholds, train_descriptors, cluster_coords>>

Next ==
    \/ NoFrame
    \/ DetectFrame
    \/ Describe
    \/ Match
    \/ Cluster
    \/ Overlay
    \/ \E value \in TrackbarStops : change_corner_threshold(value)
    \/ \E value \in TrackbarStops : change_match_threshold(value)

Spec == Init /\ [][Next]_vars

----------------------------------------------------------------------------
(* The threshold store alone: the trackbars over their whole range *)

TrackbarRange == 0..TrackbarMax

NextThresholds ==
    \/ \E value \in TrackbarRange : change_corner_threshold(value)
    \/ \E value \in TrackbarRange : change_match_threshold(value)

SpecThresholds == Init /\ [][NextThresholds]_vars

----------------------------------------------------------------------------
(* corner_match alone: one call on descriptors and corners that agree      *)
(* index by index, under thresholds the trackbars can set                  *)

RefDescriptors == UNION {[1..n -> DescValues] : n \in 0..MaxRef}

InitMatch ==
    /\ corner_raw \in TrackbarStops
    /\ match_raw \in TrackbarStops
    /\ corner_threshold = CornerOf(corner_raw)
    /\ close_match_threshold = MatchOf(match_raw)
    /\ train_descriptors \in RefDescriptors
    /\ frame \in Frames
    /\ new_corners = Detect(frame)
    /\ desc_corners = new_corners
    /\ new_descriptors = Compute(frame, new_corners)
    /\ good_corners = <<>>
    /\ cluster_coords = Unbound
    /\ stages = <<>>
    /\ pc = "corner_match"
    /\ fault = "none"

CallCornerMatch ==
    /\ pc = "corner_match"
    /\ LET r == corner_match(train_descriptors, new_descriptors, new_corners,
                             corner_threshold, close_match_threshold)
       IN  IF r.raised # "none"
           THEN /\ pc' = "fault"
                /\ fault' = r.raised
                /\ good_corners' = good_corners
           ELSE /\ pc' = "returned"
                /\ fault' = fault
                /\ good_corners' = r.value
    /\ UNCHANGED <<thresholds, train_descriptors, frame, new_corners,
                   desc_corners, new_descriptors, cluster_coords, stages>>

SpecMatch == InitMatch /\ [][CallCornerMatch]_vars

----------------------------------------------------------------------------
(* find_four_clusters alone: one call on a list of corners *)

Coords == 0..MaxCoord

CornerLists ==
    UNION {[1..n -> [pt : Coords \X Coords, response : {1}]] : n \in 0..MaxPts}

InitCluster ==
    /\ InitThresholds
    /\ train_descriptors = <<>>
    /\ frame = <<>>
    /\ new_corners = <<>>
    /\ desc_corners = <<>>
    /\ new_descriptors = <<>>
    /\ good_corners \in CornerLists
    /\ cluster_coords = Unbound
    /\ stages = <<>>
    /\ pc = "find_four_clusters"
    /\ fault = "none"

CallFindFourClusters ==
    /\ pc = "find_four_clusters"
    /\ cluster_coords' = find_four_clusters(good_corners)
    /\ pc' = "returned"
    /\ UNCHANGED <<thresholds, train_descriptors, frame, new_corners,
                   desc_corners, new_descriptors, good_corners, stages, fault>>

SpecCluster == InitCluster /\ [][CallFindFourClusters]_vars

----------------------------------------------------------------------------
(* Properties *)

Range(s) == {s[i] : i \in 1..Len(s)}

Done(stage) == stage \in Range(stages)

(* C1: the cluster centres drawn on a frame were computed on that frame:   *)
(* a frame on which find_four_clusters did not run, or returned None, has  *)
(* no centre drawn on it.                                                  *)
C1_CentresAreThisFrames ==
    Done("draw_clusters") => Done("cluster") /\ cluster_coords # None

(* C5: a frame that leaves too few accepted corners for clustering never   *)
(* ends the loop in a fault; the loop goes on to the next frame.           *)
C5_FewMatchesAbsorbed ==
    ~(pc = "fault" /\ Done("filter") /\ Len(good_corners) <= MinGood)

(* C9: when corner_match is called, the descriptors it is given were       *)
(* computed from the corners it is given, one for one and in their order,  *)
(* whenever the trackbar writes corner_threshold; so no index into         *)
(* new_corners is out of range.                                            *)
C9_DescriptorsMatchCorners ==
    /\ pc = "match" =>
         /\ Len(new_descriptors) = Len(new_corners)
         /\ desc_corners = new_corners
    /\ fault # "IndexError"

----------------------------------------------------------------------------
(* C6: the stages of a frame *)

Rank(stage) ==
    CASE stage = "detect" -> 1
      [] stage = "describe" -> 2
      [] stage = "filter" -> 3
      [] stage = "cluster" -> 4
      [] stage = "draw_clusters" -> 5
      [] stage = "draw_corners" -> 6

StagesInOrder ==
    \A i, j \in 1..Len(stages) : i < j => Rank(stages[i]) < Rank(stages[j])

(* where the loop stands tells what has been done to the frame so far *)
StagesAtPc ==
    /\ pc = "describe" => stages = <<"detect">> /\ Len(new_corners) > 1
    /\ pc = "match" => stages = <<"detect", "describe">> /\ Len(new_corners) > 1
    /\ pc = "cluster" =>
         /\ stages = <<"detect", "describe", "filter">>
         /\ Len(new_corners) > 1
         /\ Len(good_corners) > 5
    /\ pc = "overlay" =>
         /\ Len(new_corners) > 1
         /\ IF Len(good_corners) > 5
            THEN stages = <<"detect", "describe", "filter", "cluster">>
            ELSE stages = <<"detect", "describe", "filter">>
    /\ Done("cluster") => Done("filter")
    /\ Done("filter") => Done("describe")
    /\ Done("describe") => Done("detect")

(* a frame with fewer than 2 corners is left at once; a frame's stages     *)
(* only grow until the next frame is taken                                 *)
StagesStep ==
    /\ (pc = "detect" /\ stages' = <<"detect">>) =>
         /\ Len(new_corners') > 1 => pc' = "describe"
         /\ Len(new_corners') <= 1 => pc' = "detect"
    /\ (pc = "detect" /\ stages' # stages) => Len(stages') <= 1
    /\ (pc # "detect" /\ stages' # stages) =>
         /\ Len(stages') > Len(stages)
         /\ SubSeq(stages', 1, Len(stages)) = stages

(* C6: per frame the stages run in the order detect, describe, filter,     *)
(* cluster; a frame with fewer than 2 corners gets nothing after detect;   *)
(* the cluster step runs exactly on the frames with at least 2 corners and *)
(* more than 5 accepted corners.                                           *)
C6_StagesGated == [](StagesInOrder /\ StagesAtPc) /\ [][StagesStep]_vars

C6_Witness ==
    /\ pc = "overlay"
    /\ stages = <<"detect", "describe", "filter", "cluster">>
    /\ Len(good_corners) > 5

----------------------------------------------------------------------------
(* C7: each threshold is the raw value last given to its setter, divided   *)
(* by 1000 (corner) or by 100 (match), and is its initial value, 0.0 or    *)
(* 1.0, when the setter was never called; a setter leaves the other        *)
(* threshold alone; setting 50 and then 0 takes corner_threshold from 0.05 *)
(* to 0.0.                                                                 *)
ThresholdsFollowRaw ==
    /\ corner_threshold * CornerDivisor = corner_raw * Scale
    /\ close_match_threshold * MatchDivisor = match_raw * Scale

SetterStep ==
    /\ corner_raw' # corner_raw => close_match_threshold' = close_match_threshold
    /\ match_raw' # match_raw => corner_threshold' = corner_threshold
    /\ (corner_raw = 50 /\ corner_raw' = 0) =>
         corner_threshold * 100 = 5 * Scale /\ corner_threshold' = 0

C7_ThresholdsFollowSetters == []ThresholdsFollowRaw /\ [][SetterStep]_vars

C7_Witness ==
    /\ corner_raw = 50
    /\ corner_threshold * 100 = 5 * Scale
    /\ match_raw = 25
    /\ close_match_threshold * 4 = Scale

(* C10 as claimed: corner_threshold >= 0 and close_match_threshold > 0 in  *)
(* every state the setters can reach.                                      *)
C10_Claimed == corner_threshold >= 0 /\ close_match_threshold > 0

(* C10 amended: corner_threshold >= 0 and close_match_threshold >= 0, and  *)
(* close_match_threshold is 0 exactly when the raw value last given to     *)
(* change_match_threshold is 0.                                            *)
C10_NonNegative ==
    /\ corner_threshold >= 0
    /\ close_match_threshold >= 0
    /\ close_match_threshold = 0 <=> match_raw = 0

C10_Witness == match_raw = 0 /\ close_match_threshold = 0 /\ corner_raw = 100

----------------------------------------------------------------------------
(* corner_match: the ratio test, said without knnMatch *)

Max(a, b) == IF a >= b THEN a ELSE b

Least(S) == CHOOSE d \in S : \A e \in S : d <= e

(* distance from r to the nearest element of sequence S *)
D1(r, S) == Least({Dist(r, S[j]) : j \in 1..Len(S)})

(* distance from r to the second-nearest element of S, Len(S) >= 2 *)
D2(r, S) ==
    Least({Max(Dist(r, S[j]), Dist(r, S[k])) :
               <<j, k>> \in {p \in (1..Len(S)) \X (1..Len(S)) : p[1] # p[2]}})

RatioTest(r, S) == D1(r, S) * Scale < close_match_threshold * D2(r, S)

Strong(j) == new_corners[j].response > corner_threshold

Kept(j) == new_corners[j] \in Range(good_corners)

Copies(j) == Cardinality({k \in 1..Len(good_corners) : good_corners[k] = new_corners[j]})

Accepting(j) ==
    {i \in 1..Len(train_descriptors) :
        /\ Dist(train_descriptors[i], new_descriptors[j])
             = D1(train_descriptors[i], new_descriptors)
        /\ RatioTest(train_descriptors[i], new_descriptors)}

C3_NoKeypointTwice ==
    pc = "returned" =>
        /\ \A j \in 1..Len(new_corners) : Copies(j) <= 1
        /\ Len(good_corners) <= Len(new_corners)

(* C8: with no reference descriptors, or with fewer than two new-frame     *)
(* descriptors, corner_match returns the empty list and does not raise.    *)
C8_EmptyInEmptyOut ==
    (Len(train_descriptors) = 0 \/ Len(new_descriptors) < 2) =>
        pc # "fault" /\ good_corners = <<>>

(* C4: on corners with fewer than 4 distinct coordinates                   *)
(* find_four_clusters returns None, and it never raises.                   *)
C4_FewDistinctGivesNone ==
    /\ fault = "none"
    /\ (pc = "returned" /\ Cardinality(Range(Points(good_corners))) < 4) =>
         cluster_coords = None

====
